---- MODULE Spec2Model ----
(***************************************************************************)
(* Model of IS2_GL_Rasterize.ipynb: create_raster_from_points_with_smoothing *)
(* (point binning, NaN replacement, normalized focal mean, write) and       *)
(* process_shapefiles (the batch loop with per-file try/except).            *)
(*                                                                         *)
(* Arithmetic is exact: every real value is a reduced fraction              *)
(* [num, den] with den > 0, and NaN is the fraction 0/0.  float32/float64   *)
(* rounding is not modelled.  World coordinates and pixel sizes are         *)
(* integers, so (x - left) / pixel_size is an exact quotient and int()      *)
(* is truncation toward zero.                                               *)
(***************************************************************************)
EXTENDS Integers, Sequences, FiniteSets, TLC

VARIABLES
    pc,               \* position in create_raster_from_points_with_smoothing
    bounds,           \* ref.bounds: [left, right, top, bottom]
    pixel_size,       \* parameter pixel_size
    smoothing_window, \* parameter smoothing_window
    gdf,              \* the GeoDataFrame rows: sequence of [x, y, value]
    i,                \* index of the next row gdf.iterrows() yields
    width, height,    \* raster dimensions
    raster,           \* the raster array: function <<row, col>> -> fraction
    hist,             \* per cell, the values written to it, in arrival order
    valid_mask,       \* raster != nodata
    smoothed_raster,  \* uniform_filter of the zero-filled raster
    weight_mask,      \* uniform_filter of the mask as float
    divided,          \* cells at which smoothed_raster / weight_mask was evaluated
    div_warning,      \* TRUE when a division had a zero denominator
    raster_smoothed,  \* the np.where result
    written,          \* what dst.write received, with the declared shape
    files,            \* process_shapefiles: what glob("*.shp") lists, in order
    fails,            \* per listed file, the stage that raises ("none" if none)
    bidx,             \* index of the file the for loop holds (0 before the first)
    bpc,              \* position in process_shapefiles
    attempts,         \* files whose try block was entered, in order
    log               \* printed lines: <<file, "Processed" | "Error">>

vars == <<pc, bounds, pixel_size, smoothing_window, gdf, i, width, height, raster,
          hist, valid_mask, smoothed_raster, weight_mask, divided, div_warning,
          raster_smoothed, written, files, fails, bidx, bpc, attempts, log>>

rasterVars == <<pc, bounds, pixel_size, smoothing_window, gdf, i, width, height,
                raster, hist, valid_mask, smoothed_raster, weight_mask, divided,
                div_warning, raster_smoothed, written>>

batchVars == <<files, fails, bidx, bpc, attempts, log>>

(***************************************************************************)
(* Bounds of the model.                                                    *)
(***************************************************************************)
MaxSamples == 3
MaxDim == 3
MaxValid == 2
MaxFiles == 3

(***************************************************************************)
(* Exact fractions.                                                        *)
(***************************************************************************)
Abs(n) == IF n < 0 THEN -n ELSE n

RECURSIVE GCD(_, _)
GCD(a, b) == IF b = 0 THEN a ELSE GCD(b, a % b)

NaN == [num |-> 0, den |-> 0]

IsNaN(q) == q.den = 0

Rat(n, d) ==
    LET g == GCD(Abs(n), d)
    IN  [num |-> n \div g, den |-> d \div g]

IntRat(n) == [num |-> n, den |-> 1]

RAdd(p, q) ==
    IF IsNaN(p) \/ IsNaN(q) THEN NaN
    ELSE Rat(p.num * q.den + q.num * p.den, p.den * q.den)

RDivInt(p, k) == IF IsNaN(p) THEN NaN ELSE Rat(p.num, p.den * k)

\* p / q as numpy evaluates it elementwise: 0/0 is NaN (with a RuntimeWarning).
RDiv(p, q) ==
    IF IsNaN(p) \/ IsNaN(q) \/ q.num = 0 THEN NaN
    ELSE IF q.num > 0 THEN Rat(p.num * q.den, p.den * q.num)
    ELSE Rat(-(p.num * q.den), -(p.den * q.num))

RPos(q) == ~IsNaN(q) /\ q.num > 0

RECURSIVE RSum(_)
RSum(s) == IF s = <<>> THEN IntRat(0) ELSE RAdd(Head(s), RSum(Tail(s)))

\* Python int() of the quotient a / b (b > 0): truncation toward zero.
TruncDiv(a, b) == IF a >= 0 THEN a \div b ELSE -((-a) \div b)

(***************************************************************************)
(* Grid Rasterizer.                                                        *)
(***************************************************************************)
nodata == -9999

Cells(h, w) == (0 .. h - 1) \X (0 .. w - 1)

GridWidthCeil(b, s) == ((b.right - b.left) + s - 1) \div s

GridWidth(b, s) == TruncDiv(b.right - b.left, s)

GridHeight(b, s) == TruncDiv(b.top - b.bottom, s)

ColOf(p, b, s) == TruncDiv(p.x - b.left, s)

RowOf(p, b, s) == TruncDiv(b.top - p.y, s)

InGrid(row, col, h, w) == 0 <= col /\ col < w /\ 0 <= row /\ row < h

BinValueLast(cur, value) == value

BinValueSum(cur, value) == IF IsNaN(cur) THEN value ELSE RAdd(cur, value)

BinValue(cur, value) ==
    IF IsNaN(cur) THEN value ELSE RDivInt(RAdd(cur, value), 2)

\* One iteration of the loop over gdf.iterrows(), as a function of the raster.
Rasterize(r, p, b, s, h, w) ==
    LET col == ColOf(p, b, s)
        row == RowOf(p, b, s)
    IN  IF InGrid(row, col, h, w)
        THEN [r EXCEPT ![<<row, col>>] = BinValue(@, IntRat(p.value))]
        ELSE r

ReplaceNaNZero(r) == [c \in DOMAIN r |-> IF IsNaN(r[c]) THEN IntRat(0) ELSE r[c]]

ReplaceNaN(r) == [c \in DOMAIN r |-> IF IsNaN(r[c]) THEN IntRat(nodata) ELSE r[c]]

(***************************************************************************)
(* Gap-Filling Smoother.                                                   *)
(***************************************************************************)
ValidMask(r) == [c \in DOMAIN r |-> r[c] # IntRat(nodata)]

ZeroedSwapped(vm, r) == [c \in DOMAIN r |-> IF vm[c] THEN IntRat(0) ELSE r[c]]

Zeroed(vm, r) == [c \in DOMAIN r |-> IF vm[c] THEN r[c] ELSE IntRat(0)]

MaskAsFloat(vm) == [c \in DOMAIN vm |-> IF vm[c] THEN IntRat(1) ELSE IntRat(0)]

\* scipy mode='mirror' (d c b | a b c d | c b a), the edge cell not repeated.
Mirror(k, n) ==
    IF n = 1 THEN 0
    ELSE LET m == k % (2 * n - 2) IN IF m < n THEN m ELSE 2 * n - 2 - m

\* scipy mode='reflect' (d c b a | a b c d | d c b a), uniform_filter's default.
Reflect(k, n) ==
    LET m == k % (2 * n) IN IF m < n THEN m ELSE 2 * n - 1 - m

\* The j-th input index (j = 1 .. size) of uniform_filter1d's window at output
\* index k, origin 0.
WindowIdx(k, size, j) == k - (size \div 2) + j - 1

FilterAxis0(a, size, h, w) ==
    [c \in Cells(h, w) |->
        RDivInt(RSum([j \in 1 .. size |->
                        a[<<Reflect(WindowIdx(c[1], size, j), h), c[2]>>]]), size)]

FilterAxis1(a, size, h, w) ==
    [c \in Cells(h, w) |->
        RDivInt(RSum([j \in 1 .. size |->
                        a[<<c[1], Reflect(WindowIdx(c[2], size, j), w)>>]]), size)]

\* uniform_filter(a, size=size): separable, one 1-D pass per axis.
UniformFilter(a, size, h, w) ==
    FilterAxis1(FilterAxis0(a, size, h, w), size, h, w)

\* The cells at which the expression smoothed_raster / weight_mask is evaluated:
\* the quotient is an argument of np.where, computed over the whole array first.
DivisionSites(sr, wm) == DOMAIN sr

Quotient(sr, wm) == [c \in DivisionSites(sr, wm) |-> RDiv(sr[c], wm[c])]

WhereWeight(wm, q) ==
    [c \in DOMAIN wm |-> IF RPos(wm[c]) THEN q[c] ELSE IntRat(nodata)]

(***************************************************************************)
(* Inputs.                                                                 *)
(***************************************************************************)
Extent(l, r, t, b) == [left |-> l, right |-> r, top |-> t, bottom |-> b]

Extents == {Extent(0, 100, 100, 0), Extent(-10, 20, 110, 80)}

PixelSizes == {10, 30}

Sample(x, y, v) == [x |-> x, y |-> y, value |-> v]

SampleSet ==
    { Sample(5, 95, 10), Sample(5, 95, 20), Sample(95, 5, 100),
      Sample(5, 95, 40), Sample(-5, 95, 20), Sample(5, 105, 20),
      Sample(5, 100, 10), Sample(5, 95, nodata) }

RECURSIVE SeqsUpTo(_, _)
SeqsUpTo(S, n) ==
    IF n = 0 THEN {<<>>}
    ELSE LET shorter == SeqsUpTo(S, n - 1)
         IN  shorter \cup {Append(s, e) : s \in shorter, e \in S}

EmptyGrid == [c \in {} |-> NaN]

\* np.full((height, width), np.nan)
NaNGrid(h, w) == [c \in Cells(h, w) |-> NaN]

\* The whole loop over gdf.iterrows(), as a function of the rows.
RECURSIVE BinAll(_, _, _, _, _, _)
BinAll(r, g, b, s, h, w) ==
    IF g = <<>> THEN r
    ELSE BinAll(Rasterize(r, Head(g), b, s, h, w), Tail(g), b, s, h, w)

NoWrite == [height |-> 0, width |-> 0, data |-> EmptyGrid]

InitRasterVars(b, s, win, g) ==
    /\ pc = "start"
    /\ bounds = b
    /\ pixel_size = s
    /\ smoothing_window = win
    /\ gdf = g
    /\ i = 1
    /\ width = 0
    /\ height = 0
    /\ raster = EmptyGrid
    /\ hist = EmptyGrid
    /\ valid_mask = EmptyGrid
    /\ smoothed_raster = EmptyGrid
    /\ weight_mask = EmptyGrid
    /\ divided = {}
    /\ div_warning = FALSE
    /\ raster_smoothed = EmptyGrid
    /\ written = NoWrite

IdleBatch ==
    /\ files = <<>>
    /\ fails = <<>>
    /\ bidx = 0
    /\ bpc = "idle"
    /\ attempts = <<>>
    /\ log = <<>>

IdleRaster ==
    /\ pc = "idle"
    /\ bounds = Extent(0, 0, 0, 0)
    /\ pixel_size = 1
    /\ smoothing_window = 3
    /\ gdf = <<>>
    /\ i = 1
    /\ width = 0
    /\ height = 0
    /\ raster = EmptyGrid
    /\ hist = EmptyGrid
    /\ valid_mask = EmptyGrid
    /\ smoothed_raster = EmptyGrid
    /\ weight_mask = EmptyGrid
    /\ divided = {}
    /\ div_warning = FALSE
    /\ raster_smoothed = EmptyGrid
    /\ written = NoWrite

Init ==
    /\ \E b \in Extents, s \in PixelSizes, g \in SeqsUpTo(SampleSet, MaxSamples) :
          InitRasterVars(b, s, 3, g)
    /\ IdleBatch

(***************************************************************************)
(* create_raster_from_points_with_smoothing, step by step.                 *)
(***************************************************************************)
Open ==
    /\ pc = "start"
    /\ width' = GridWidth(bounds, pixel_size)
    /\ height' = GridHeight(bounds, pixel_size)
    /\ raster' = NaNGrid(height', width')
    /\ hist' = [c \in Cells(height', width') |-> <<>>]
    /\ pc' = "bin"
    /\ UNCHANGED <<bounds, pixel_size, smoothing_window, gdf, i, valid_mask,
                   smoothed_raster, weight_mask, divided, div_warning,
                   raster_smoothed, written>>
    /\ UNCHANGED batchVars

BinSample ==
    /\ pc = "bin"
    /\ i <= Len(gdf)
    /\ LET p == gdf[i]
           col == ColOf(p, bounds, pixel_size)
           row == RowOf(p, bounds, pixel_size)
       IN  /\ raster' = Rasterize(raster, p, bounds, pixel_size, height, width)
           /\ hist' = IF InGrid(row, col, height, width)
                      THEN [hist EXCEPT ![<<row, col>>] = Append(@, p.value)]
                      ELSE hist
    /\ i' = i + 1
    /\ UNCHANGED <<pc, bounds, pixel_size, smoothing_window, gdf, width, height,
                   valid_mask, smoothed_raster, weight_mask, divided, div_warning,
                   raster_smoothed, written>>
    /\ UNCHANGED batchVars

Finish ==
    /\ pc = "bin"
    /\ i > Len(gdf)
    /\ raster' = ReplaceNaN(raster)
    /\ valid_mask' = ValidMask(raster')
    /\ smoothed_raster' =
           UniformFilter(Zeroed(valid_mask', raster'), smoothing_window, height, width)
    /\ weight_mask' =
           UniformFilter(MaskAsFloat(valid_mask'), smoothing_window, height, width)
    /\ divided' = DivisionSites(smoothed_raster', weight_mask')
    /\ div_warning' = (\E c \in divided' : weight_mask'[c].num = 0)
    /\ raster_smoothed' =
           WhereWeight(weight_mask', Quotient(smoothed_raster', weight_mask'))
    /\ written' = [height |-> height, width |-> width, data |-> raster_smoothed']
    /\ pc' = "done"
    /\ UNCHANGED <<bounds, pixel_size, smoothing_window, gdf, i, width, height, hist>>
    /\ UNCHANGED batchVars

Next == Open \/ BinSample \/ Finish

Spec == Init /\ [][Next]_vars

(***************************************************************************)
(* Datasets that cover chosen cells of an h x w grid, one sample at the    *)
(* centre of each chosen cell, in row-major order: the smoother's inputs.  *)
(***************************************************************************)
GridVals == {10, 20}

ConstVals == {-5, 0, 10}

Windows == {1, 3, 5}

CoverPixel == 10

CellSeq(h, w) == [k \in 1 .. h * w |-> <<(k - 1) \div w, (k - 1) % w>>]

CoverExtent(h, w) == Extent(0, w * CoverPixel, h * CoverPixel, 0)

CentreSample(c, h, v) ==
    Sample(c[2] * CoverPixel + CoverPixel \div 2,
           h * CoverPixel - c[1] * CoverPixel - CoverPixel \div 2, v)

CoverGdf(h, w, f) ==
    LET sel == SelectSeq(CellSeq(h, w), LAMBDA c : c \in DOMAIN f)
    IN  [k \in 1 .. Len(sel) |-> CentreSample(sel[k], h, f[sel[k]])]

SparseGrids(h, w) ==
    UNION { [V -> GridVals] :
              V \in {U \in SUBSET Cells(h, w) : Cardinality(U) <= MaxValid} }

ConstGrids(h, w) == { [c \in Cells(h, w) |-> v] : v \in ConstVals }

InitSmooth ==
    /\ \E h \in 1 .. MaxDim, w \in 1 .. MaxDim :
          \/ \E f \in SparseGrids(h, w) :
                InitRasterVars(CoverExtent(h, w), CoverPixel, 3, CoverGdf(h, w, f))
          \/ \E f \in ConstGrids(h, w), win \in Windows :
                InitRasterVars(CoverExtent(h, w), CoverPixel, win, CoverGdf(h, w, f))
    /\ IdleBatch

SpecSmooth == InitSmooth /\ [][Next]_vars

(***************************************************************************)
(* process_shapefiles: the for loop over glob("*.shp") with its try/except. *)
(***************************************************************************)
FailStages == {"none", "read", "open", "rasterize", "write"}

ExceptBreak(l, f) == [log |-> Append(l, <<f, "Error">>), bpc |-> "done"]

\* except Exception as e: print(...), then the loop goes on.
Except(l, f) == [log |-> Append(l, <<f, "Error">>), bpc |-> "loop"]

InitBatch ==
    /\ IdleRaster
    /\ \E n \in 0 .. MaxFiles :
          /\ files = [k \in 1 .. n |-> k]
          /\ fails \in [1 .. n -> FailStages]
    /\ bidx = 0
    /\ bpc = "loop"
    /\ attempts = <<>>
    /\ log = <<>>

\* The for statement takes the next listed file and enters the try block.
BatchFetch ==
    /\ bpc = "loop"
    /\ bidx < Len(files)
    /\ bidx' = bidx + 1
    /\ attempts' = Append(attempts, files[bidx + 1])
    /\ bpc' = "read"
    /\ UNCHANGED <<files, fails, log>>
    /\ UNCHANGED rasterVars

\* gpd.read_file and the output path.
ReadFile ==
    /\ bpc = "read"
    /\ IF fails[bidx] = "read"
       THEN LET e == Except(log, files[bidx])
            IN  log' = e.log /\ bpc' = e.bpc
       ELSE log' = log /\ bpc' = "call"
    /\ UNCHANGED <<files, fails, bidx, attempts>>
    /\ UNCHANGED rasterVars

\* The call of create_raster_from_points_with_smoothing and the print after it.
CallRasterize ==
    /\ bpc = "call"
    /\ IF fails[bidx] \in {"open", "rasterize", "write"}
       THEN LET e == Except(log, files[bidx])
            IN  log' = e.log /\ bpc' = e.bpc
       ELSE log' = Append(log, <<files[bidx], "Processed">>) /\ bpc' = "loop"
    /\ UNCHANGED <<files, fails, bidx, attempts>>
    /\ UNCHANGED rasterVars

\* The listing is exhausted.
BatchExit ==
    /\ bpc = "loop"
    /\ bidx = Len(files)
    /\ bpc' = "done"
    /\ UNCHANGED <<files, fails, bidx, attempts, log>>
    /\ UNCHANGED rasterVars

NextBatch == BatchFetch \/ ReadFile \/ CallRasterize \/ BatchExit

SpecBatch == InitBatch /\ [][NextBatch]_vars

\* The loop is sequential code: whenever a step is possible it is taken.
FairBatch == SpecBatch /\ WF_vars(NextBatch)

(***************************************************************************)
(* Properties.                                                             *)
(***************************************************************************)
InExtent(p, b) ==
    b.left <= p.x /\ p.x < b.right /\ b.bottom <= p.y /\ p.y < b.top

RemoveAt(g, k) == [j \in 1 .. Len(g) - 1 |-> IF j < k THEN g[j] ELSE g[j + 1]]

FloorDiv(a, b) == a \div b

RECURSIVE PairwiseAvg(_)
PairwiseAvg(s) ==
    IF Len(s) = 1 THEN IntRat(s[1])
    ELSE RDivInt(RAdd(PairwiseAvg(SubSeq(s, 1, Len(s) - 1)), IntRat(s[Len(s)])), 2)

Clamp(k, n) == IF k < 0 THEN 0 ELSE IF k > n - 1 THEN n - 1 ELSE k

\* The nine members of the 3x3 window of cell c, a cell beyond an edge replaced
\* by the edge cell it mirrors.
Window3(c, h, w) ==
    [k \in 1 .. 9 |->
        <<Clamp(c[1] - 1 + ((k - 1) \div 3), h),
          Clamp(c[2] - 1 + ((k - 1) % 3), w)>>]

ValidMembers(c) ==
    SelectSeq(Window3(c, height, width), LAMBDA m : raster[m] # IntRat(nodata))

MemberValues(c) ==
    LET ms == ValidMembers(c) IN [k \in 1 .. Len(ms) |-> raster[ms[k]]]

Scenario == <<Sample(5, 95, 10), Sample(5, 95, 20), Sample(95, 5, 100)>>

\* C1: a sample outside [left,right) x [bottom,top) never changes the binned
\* grid: the grid with the sample present equals the grid with the sample
\* removed from the dataset.
C1_BoundsFiltering ==
    pc = "done" =>
        \A k \in 1 .. Len(gdf) :
            ~InExtent(gdf[k], bounds) =>
                raster = ReplaceNaN(BinAll(NaNGrid(height, width), RemoveAt(gdf, k),
                                           bounds, pixel_size, height, width))

\* C2: the quotient sum-estimate / weight is evaluated only at cells whose
\* weight is > 0; at a cell of weight 0 no division is evaluated, no
\* divide-by-zero event occurs, and the output is the sentinel.
C2_GuardedDivision ==
    pc = "done" =>
        /\ \A c \in divided : RPos(weight_mask[c])
        /\ ~div_warning
        /\ \A c \in DOMAIN weight_mask :
              weight_mask[c].num = 0 => raster_smoothed[c] = IntRat(nodata)

\* C3: with window 3, the smoothed value of every cell is the arithmetic mean
\* of the valid members of its 3x3 window (mirrored cells counted as separate
\* members), and the sentinel when the window has no valid member.
C3_SmoothingMean ==
    (pc = "done" /\ smoothing_window = 3) =>
        \A c \in Cells(height, width) :
            LET vs == MemberValues(c)
            IN  IF Len(vs) = 0
                THEN raster_smoothed[c] = IntRat(nodata)
                ELSE raster_smoothed[c] = RDivInt(RSum(vs), Len(vs))

C3_Witness ==
    /\ pc = "done" /\ smoothing_window = 3 /\ height = 3 /\ width = 3
    /\ raster[<<0, 0>>] = IntRat(10) /\ raster[<<2, 1>>] = IntRat(20)
    /\ Len(MemberValues(<<1, 1>>)) = 2
    /\ raster_smoothed[<<1, 1>>] = IntRat(15)
    /\ raster_smoothed[<<0, 0>>] = IntRat(10)

\* C4: the binned value of a cell is the running pairwise average, in arrival
\* order, of the values written to it: 10 then 20 give 15, a further 40 gives
\* 27.5, and the same three values in another order give another result.
C4_PairwiseAverage ==
    pc \in {"bin", "done"} =>
        \A c \in Cells(height, width) :
            /\ hist[c] # <<>> => raster[c] = PairwiseAvg(hist[c])
            /\ hist[c] = <<10, 20>> => raster[c] = IntRat(15)
            /\ hist[c] = <<10, 20, 40>> => raster[c] = Rat(55, 2)
            /\ hist[c] = <<40, 20, 10>> => raster[c] = IntRat(20)

C4_Witness ==
    /\ pc = "done"
    /\ \E c \in Cells(height, width) :
          hist[c] = <<10, 20, 40>> /\ raster[c] = Rat(55, 2)

\* C5: the binned grid has floor((right-left)/S) columns and
\* floor((top-bottom)/S) rows, and the smoothed grid that is written has the
\* same shape.
C5_Shape ==
    /\ pc \in {"bin", "done"} =>
          /\ width = FloorDiv(bounds.right - bounds.left, pixel_size)
          /\ height = FloorDiv(bounds.top - bounds.bottom, pixel_size)
          /\ DOMAIN raster = Cells(height, width)
    /\ pc = "done" =>
          /\ DOMAIN raster_smoothed = DOMAIN raster
          /\ written.height = height /\ written.width = width
          /\ DOMAIN written.data = Cells(written.height, written.width)

C5_Witness ==
    /\ pc = "done"
    /\ bounds = Extent(0, 100, 100, 0) /\ pixel_size = 30
    /\ width = 3 /\ height = 3
    /\ DOMAIN written.data = Cells(3, 3)

\* C6: the end-to-end scenario: 10x10 grid, cell (0,0) = 15, cell (9,9) = 100,
\* every other cell the sentinel; after smoothing with window 3, cells (0,0)
\* and (1,1) are 15.
C6_Scenario ==
    (/\ pc = "done" /\ gdf = Scenario
     /\ bounds = Extent(0, 100, 100, 0) /\ pixel_size = 10 /\ smoothing_window = 3) =>
        /\ height = 10 /\ width = 10
        /\ raster[<<0, 0>>] = IntRat(15)
        /\ raster[<<9, 9>>] = IntRat(100)
        /\ \A c \in Cells(10, 10) \ {<<0, 0>>, <<9, 9>>} : raster[c] = IntRat(nodata)
        /\ raster_smoothed[<<0, 0>>] = IntRat(15)
        /\ raster_smoothed[<<1, 1>>] = IntRat(15)

C6_Witness ==
    /\ pc = "done" /\ gdf = Scenario
    /\ bounds = Extent(0, 100, 100, 0) /\ pixel_size = 10 /\ smoothing_window = 3
    /\ raster_smoothed[<<1, 1>>] = IntRat(15)

\* C7: the batch loop terminates; it has then attempted every listed file once,
\* in listing order, and printed exactly one outcome per file, "Error" for a
\* file with a failing stage and "Processed" otherwise; a file's outcome is
\* printed before the next file is attempted.
C7_BatchIsolation ==
    /\ <>(bpc = "done")
    /\ [](/\ Len(attempts) = bidx
          /\ Len(log) = IF bpc \in {"read", "call"} THEN bidx - 1 ELSE bidx)
    /\ [](bpc = "done" =>
            /\ attempts = files
            /\ Len(log) = Len(files)
            /\ \A k \in 1 .. Len(files) :
                  log[k] = <<files[k],
                             IF fails[k] = "none" THEN "Processed" ELSE "Error">>)

C7_Witness ==
    /\ bpc = "done" /\ Len(files) = 3
    /\ fails[1] = "open" /\ fails[2] = "none" /\ fails[3] = "read"
    /\ log = <<<<1, "Error">>, <<2, "Processed">>, <<3, "Error">>>>

\* C8: smoothing a grid whose cells all hold the same non-sentinel constant
\* returns that grid, at interior and at boundary cells, for every window size.
C8_ConstantFixpoint ==
    (/\ pc = "done" /\ height >= 1 /\ width >= 1
     /\ raster[<<0, 0>>] # IntRat(nodata)
     /\ \A c \in Cells(height, width) : raster[c] = raster[<<0, 0>>]) =>
        \A c \in Cells(height, width) : raster_smoothed[c] = raster[<<0, 0>>]

C8_Witness ==
    /\ pc = "done" /\ smoothing_window = 5 /\ height = 3 /\ width = 3
    /\ \A c \in Cells(3, 3) : raster[c] = IntRat(-5)
    /\ raster_smoothed[<<1, 1>>] = IntRat(-5)
    /\ raster_smoothed[<<0, 2>>] = IntRat(-5)

\* C9 as stated: the validity mask is true at a cell exactly when at least one
\* sample was written to it, whatever the sample values.
C9_MaskIffContribution ==
    pc = "done" =>
        \A c \in Cells(height, width) : valid_mask[c] <=> hist[c] # <<>>

\* C9 as amended: the validity mask is true at a cell exactly when at least one
\* sample was written to it and the running pairwise average of those samples
\* is not -9999; a cell no sample was written to holds -9999 and is masked
\* false.
C9_MaskIffNonSentinel ==
    pc = "done" =>
        \A c \in Cells(height, width) :
            /\ valid_mask[c] <=>
                  (hist[c] # <<>> /\ PairwiseAvg(hist[c]) # IntRat(nodata))
            /\ hist[c] = <<>> => (raster[c] = IntRat(nodata) /\ ~valid_mask[c])

C9_Witness ==
    /\ pc = "done"
    /\ \E c, d \in Cells(height, width) :
          /\ hist[c] # <<>> /\ ~valid_mask[c]
          /\ hist[d] # <<>> /\ valid_mask[d]
    /\ \E c \in Cells(height, width) : hist[c] = <<>> /\ ~valid_mask[c]

\* C10: one binning step writes exactly the cell (floor((top-y)/S),
\* floor((x-left)/S)) when that index lies in the grid and leaves every other
\* cell unchanged; otherwise it leaves the whole grid unchanged.
C10_BinningFrame ==
    [][(pc = "bin" /\ i <= Len(gdf)) =>
          LET row == FloorDiv(bounds.top - gdf[i].y, pixel_size)
              col == FloorDiv(gdf[i].x - bounds.left, pixel_size)
          IN  IF InGrid(row, col, height, width)
              THEN /\ hist'[<<row, col>>] = Append(hist[<<row, col>>], gdf[i].value)
                   /\ \A c \in Cells(height, width) \ {<<row, col>>} :
                         raster'[c] = raster[c] /\ hist'[c] = hist[c]
              ELSE raster' = raster /\ hist' = hist]_vars

====
